---- MODULE Spec2Model ----
(***************************************************************************)
(* A model of phylib/utils/_misc.py: the JSON codec for integer-keyed      *)
(* mappings and numeric arrays, the two-column CSV/TSV reader and writer,  *)
(* the directory helper and the git version probe.                         *)
(*                                                                         *)
(* Python values are tagged records ([t |-> "int", i |-> 3]), text is a    *)
(* sequence of one-character strings, the filesystem is a function from    *)
(* the existing paths (sequences of names) to nodes.  An operation is an   *)
(* operator returning the new filesystem, the exception raised ("" when    *)
(* none) and the value returned; an action applies it to the state.        *)
(***************************************************************************)
EXTENDS Integers, Sequences, FiniteSets, TLC

VARIABLES
    fs,      \* the filesystem: existing path -> [kind, content]
    call,    \* the last operation called, with its arguments
    ret,     \* its outcome: [raised |-> exception name or "", value |-> ...]
    data,    \* the Python object handed to _save_json
    hasQt,   \* whether PyQt5 can be imported in this interpreter
    tsv,     \* the (path, field_name, data) handed to _write_tsv
    cwd,     \* the process's current working directory
    env      \* what the host does to each step of _git_version

vars == <<fs, call, ret, data, hasQt, tsv, cwd, env>>

(***************************************************************************)
(* Bounds of the model.                                                    *)
(***************************************************************************)
MaxDepth == 2        \* directory trees of the directory specification
MaxKeys == 2         \* entries of a mapping
MaxLen == 11         \* elements of a one-dimensional array
MaxDim == 2          \* rows and columns of a two-dimensional array
MaxSeed == 2         \* byte patterns an array's buffer is filled with
MaxText == 2         \* characters of a field name or a value of a table
MaxRows == 2         \* rows of a table

(***************************************************************************)
(* Generic helpers.                                                        *)
(***************************************************************************)
NoError == ""
Nil == [t |-> "nil"]
Ok(f, v) == [fs |-> f, raised |-> NoError, value |-> v]
Raise(f, e) == [fs |-> f, raised |-> e, value |-> Nil]
NoCall == [op |-> "none"]
NoRet == [raised |-> NoError, value |-> Nil]
Outcome(r) == [raised |-> r.raised, value |-> r.value]

(***************************************************************************)
(* Text: a str is a sequence of one-character strings.                     *)
(***************************************************************************)
Digits == <<"0", "1", "2", "3", "4", "5", "6", "7", "8", "9">>
Upper == <<"A", "B", "C", "D", "E", "F", "G", "H", "I", "J", "K", "L", "M",
           "N", "O", "P", "Q", "R", "S", "T", "U", "V", "W", "X", "Y", "Z">>
Lower == <<"a", "b", "c", "d", "e", "f", "g", "h", "i", "j", "k", "l", "m",
           "n", "o", "p", "q", "r", "s", "t", "u", "v", "w", "x", "y", "z">>
IndexOf(seq, c) == CHOOSE i \in 1..Len(seq) : seq[i] = c
InSeq(seq, c) == \E i \in 1..Len(seq) : seq[i] = c

\* ord(c), for the characters the model writes.
Ord(c) ==
    IF InSeq(Digits, c) THEN 47 + IndexOf(Digits, c)
    ELSE IF InSeq(Upper, c) THEN 64 + IndexOf(Upper, c)
    ELSE IF InSeq(Lower, c) THEN 96 + IndexOf(Lower, c)
    ELSE CASE c = "\t" -> 9  [] c = "\n" -> 10 [] c = "\r" -> 13
           [] c = "\"" -> 34 [] c = "+" -> 43  [] c = "," -> 44
           [] c = "-" -> 45  [] c = "/" -> 47  [] c = "<" -> 60
           [] c = "=" -> 61  [] c = ">" -> 62  [] c = "_" -> 95

\* str.isdigit() and int(str), on ASCII text.
IsDigit(s) == Len(s) > 0 /\ \A i \in 1..Len(s) : InSeq(Digits, s[i])
RECURSIVE ParseInt(_)
ParseInt(s) ==
    IF Len(s) = 0 THEN 0
    ELSE 10 * ParseInt(SubSeq(s, 1, Len(s) - 1)) + (IndexOf(Digits, s[Len(s)]) - 1)

\* str(int): the decimal form, with a minus sign below zero.
RECURSIVE NatStr(_)
NatStr(n) == IF n < 10 THEN <<Digits[n + 1]>> ELSE NatStr(n \div 10) \o <<Digits[(n % 10) + 1]>>
IntStr(n) == IF n < 0 THEN <<"-">> \o NatStr(-n) ELSE NatStr(n)

\* s < t for str: lexicographic on code points.
RECURSIVE StrLess(_, _)
StrLess(s, t) ==
    IF Len(t) = 0 THEN FALSE
    ELSE IF Len(s) = 0 THEN TRUE
    ELSE IF Ord(s[1]) # Ord(t[1]) THEN Ord(s[1]) < Ord(t[1])
    ELSE StrLess(Tail(s), Tail(t))

(***************************************************************************)
(* base64.b64encode and base64.b64decode.                                  *)
(***************************************************************************)
B64Alphabet == Upper \o Lower \o Digits \o <<"+", "/">>
B64Char(n) == B64Alphabet[n + 1]
B64Index(c) == IndexOf(B64Alphabet, c) - 1

RECURSIVE b64encode(_)
b64encode(b) ==
    IF Len(b) = 0 THEN <<>>
    ELSE IF Len(b) = 1 THEN
        <<B64Char(b[1] \div 4), B64Char((b[1] % 4) * 16), "=", "=">>
    ELSE IF Len(b) = 2 THEN
        <<B64Char(b[1] \div 4), B64Char((b[1] % 4) * 16 + b[2] \div 16),
          B64Char((b[2] % 16) * 4), "=">>
    ELSE <<B64Char(b[1] \div 4), B64Char((b[1] % 4) * 16 + b[2] \div 16),
           B64Char((b[2] % 16) * 4 + b[3] \div 64), B64Char(b[3] % 64)>>
         \o b64encode(SubSeq(b, 4, Len(b)))

\* Whether b64decode accepts s: whole quanta, padding only at the end.
B64Valid(s) ==
    /\ Len(s) % 4 = 0
    /\ \A i \in 1..Len(s) :
          \/ InSeq(B64Alphabet, s[i])
          \/ s[i] = "=" /\ i > Len(s) - 2 /\ (i = Len(s) \/ s[Len(s)] = "=")

RECURSIVE b64decode(_)
b64decode(s) ==
    IF Len(s) = 0 THEN <<>>
    ELSE LET n1 == B64Index(s[1])
             n2 == B64Index(s[2])
             b1 == n1 * 4 + n2 \div 16
         IN  IF s[3] = "=" THEN <<b1>>
             ELSE LET n3 == B64Index(s[3])
                      b2 == (n2 % 16) * 16 + n3 \div 4
                  IN  IF s[4] = "=" THEN <<b1, b2>>
                      ELSE <<b1, b2, (n3 % 4) * 64 + B64Index(s[4])>>
                           \o b64decode(SubSeq(s, 5, Len(s)))

\* bytes.decode('utf8') of ASCII bytes, and str.encode().
Chr(n) ==
    IF n \in 48..57 THEN Digits[n - 47]
    ELSE IF n \in 65..90 THEN Upper[n - 64]
    ELSE IF n \in 97..122 THEN Lower[n - 96]
    ELSE CASE n = 43 -> "+" [] n = 45 -> "-" [] n = 47 -> "/" [] n = 61 -> "="
AsciiDecode(b) == [i \in 1..Len(b) |-> Chr(b[i])]
AsciiEncode(s) == [i \in 1..Len(s) |-> Ord(s[i])]

(***************************************************************************)
(* The filesystem, as pathlib and os see it.                               *)
(***************************************************************************)
Root == <<>>
Parent(p) == SubSeq(p, 1, Len(p) - 1)
Prefix(p, k) == SubSeq(p, 1, k)
DirNode == [kind |-> "dir", content |-> Nil]
FileNode(c) == [kind |-> "file", content |-> c]

Kind(f, p) ==
    IF p = Root THEN "dir"
    ELSE IF p \in DOMAIN f THEN f[p].kind
    ELSE "none"

\* Path.exists() and Path.is_dir(): a path below a non-directory does not exist.
Resolvable(f, p) == \A k \in 0..(Len(p) - 1) : Kind(f, Prefix(p, k)) = "dir"
Exists(f, p) == Resolvable(f, p) /\ Kind(f, p) # "none"
IsDir(f, p) == Resolvable(f, p) /\ Kind(f, p) = "dir"
IsFile(f, p) == Resolvable(f, p) /\ Kind(f, p) = "file"

Put(f, p, node) == [q \in DOMAIN f \cup {p} |-> IF q = p THEN node ELSE f[q]]

\* os.mkdir(p): ENOTDIR below a non-directory, ENOENT below a missing
\* directory, EEXIST on an existing path.
OsMkdir(f, p) ==
    IF \E k \in 0..(Len(p) - 1) :
           /\ Kind(f, Prefix(p, k)) = "file"
           /\ \A j \in 0..(k - 1) : Kind(f, Prefix(p, j)) = "dir"
    THEN Raise(f, "NotADirectoryError")
    ELSE IF ~Resolvable(f, p) THEN Raise(f, "FileNotFoundError")
    ELSE IF Kind(f, p) # "none" THEN Raise(f, "FileExistsError")
    ELSE Ok(Put(f, p, DirNode), Nil)

\* Path.mkdir(exist_ok=True, parents=True).
RECURSIVE PathMkdir(_, _)
PathMkdir(f, p) ==
    LET r == OsMkdir(f, p) IN
    IF r.raised = "FileNotFoundError" THEN
        IF p = Root THEN r
        ELSE LET q == PathMkdir(f, Parent(p)) IN
             IF q.raised # NoError THEN q
             ELSE LET s == OsMkdir(q.fs, p) IN
                  IF s.raised # NoError /\ IsDir(q.fs, p) THEN Ok(q.fs, Nil) ELSE s
    ELSE IF r.raised # NoError /\ IsDir(f, p) THEN Ok(f, Nil)
    ELSE r

_ensure_dir_exists_unchecked(f, path) ==
    IF Exists(f, path) THEN Ok(f, Nil)
    ELSE PathMkdir(f, path)

\* _ensure_dir_exists(path)
_ensure_dir_exists(f, path) ==
    IF Exists(f, path) THEN
        IF ~IsDir(f, path) THEN Raise(f, "AssertionError")
        ELSE Ok(f, Nil)
    ELSE
        LET r == PathMkdir(f, path) IN
        IF r.raised # NoError THEN r
        ELSE IF ~(Exists(r.fs, path) /\ IsDir(r.fs, path))
             THEN Raise(r.fs, "AssertionError")
        ELSE Ok(r.fs, Nil)

(***************************************************************************)
(* Python values.                                                          *)
(***************************************************************************)
PInt(i) == [t |-> "int", i |-> i]
PStr(s) == [t |-> "str", s |-> s]
PNone == [t |-> "None"]
PList(xs) == [t |-> "list", xs |-> xs]
PTuple(xs) == [t |-> "tuple", xs |-> xs]
PDict(items) == [t |-> "dict", items |-> items]     \* <<key, value>> in insertion order
PBytes(b) == [t |-> "bytes", b |-> b]
PQByteArray(b) == [t |-> "QByteArray", b |-> b]

\* k in d, d[k] and d[k] = v of a dict: an assignment to a key the dict holds
\* replaces the value and keeps the key's position.
DictHas(items, k) == \E i \in 1..Len(items) : items[i][1] = k
DictGet(items, k) == items[CHOOSE i \in 1..Len(items) : items[i][1] = k][2]
DictSet(items, k, v) ==
    IF DictHas(items, k)
    THEN [i \in 1..Len(items) |-> IF items[i][1] = k THEN <<k, v>> ELSE items[i]]
    ELSE Append(items, <<k, v>>)

(***************************************************************************)
(* numpy: an array is a dtype, a shape and a view (offset and strides, in  *)
(* bytes) on a buffer of bytes.                                            *)
(***************************************************************************)
Uint8 == [kind |-> "u", size |-> 1, big |-> FALSE]
Int16 == [kind |-> "i", size |-> 2, big |-> FALSE]
Int16BE == [kind |-> "i", size |-> 2, big |-> TRUE]
Dtypes == {Uint8, Int16, Int16BE}

\* str(dtype) and np.dtype(str)
DtypeStr(dt) ==
    IF dt = Uint8 THEN <<"u", "i", "n", "t", "8">>
    ELSE IF dt = Int16 THEN <<"i", "n", "t", "1", "6">>
    ELSE <<">", "i", "2">>
DtypeKnown(s) == \E dt \in Dtypes : DtypeStr(dt) = s
DtypeOf(s) == CHOOSE dt \in Dtypes : DtypeStr(dt) = s

RECURSIVE Prod(_)
Prod(shape) == IF Len(shape) = 0 THEN 1 ELSE shape[1] * Prod(Tail(shape))
CStrides(dt, shape) ==
    [k \in 1..Len(shape) |-> dt.size * Prod(SubSeq(shape, k + 1, Len(shape)))]
NdArray(dt, shape, strides, offset, buf) ==
    [t |-> "ndarray", dtype |-> dt, shape |-> shape, strides |-> strides,
     offset |-> offset, buf |-> buf]

\* The bytes of the element at flat row-major index j (from 0).
RECURSIVE Sum(_)
Sum(xs) == IF Len(xs) = 0 THEN 0 ELSE xs[1] + Sum(Tail(xs))
ElemOffset(a, j) ==
    a.offset + Sum([k \in 1..Len(a.shape) |->
        ((j \div Prod(SubSeq(a.shape, k + 1, Len(a.shape)))) % a.shape[k]) * a.strides[k]])
ElemBytes(a, j) == SubSeq(a.buf, ElemOffset(a, j) + 1, ElemOffset(a, j) + a.dtype.size)

\* The elements' bytes in row-major order: what np.ascontiguousarray(a).data holds.
RECURSIVE Concat(_)
Concat(seqs) == IF Len(seqs) = 0 THEN <<>> ELSE seqs[1] \o Concat(Tail(seqs))
RowMajorBytes(a) == Concat([j \in 1..Prod(a.shape) |-> ElemBytes(a, j - 1)])
ascontiguousarray_view(a) == a
ascontiguousarray(a) ==
    LET shape == IF Len(a.shape) = 0 THEN <<1>> ELSE a.shape
    IN  NdArray(a.dtype, shape, CStrides(a.dtype, shape), 0, RowMajorBytes(a))

\* An element as a Python int.
ElemValue(dt, b) ==
    IF dt.size = 1 THEN b[1]
    ELSE LET u == IF dt.big THEN b[1] * 256 + b[2] ELSE b[2] * 256 + b[1]
         IN  IF u >= 32768 THEN u - 65536 ELSE u
tolist(a) == PList([j \in 1..Prod(a.shape) |-> PInt(ElemValue(a.dtype, ElemBytes(a, j - 1)))])

\* np.frombuffer(data, dtype) and ndarray.reshape(shape)
frombuffer(b, dt) ==
    NdArray(dt, <<Len(b) \div dt.size>>, <<dt.size>>, 0, b)
reshape(a, shape) == NdArray(a.dtype, shape, CStrides(a.dtype, shape), 0, a.buf)

(***************************************************************************)
(* The encoder.                                                            *)
(***************************************************************************)
K_ndarray == <<"_", "_", "n", "d", "a", "r", "r", "a", "y", "_", "_">>
K_qbytearray == <<"_", "_", "q", "b", "y", "t", "e", "a", "r", "r", "a", "y", "_", "_">>
K_dtype == <<"d", "t", "y", "p", "e">>
K_shape == <<"s", "h", "a", "p", "e">>
SmallArrayMax == 10

\* _encode_qbytearray(arr)
_encode_qbytearray(arr) == b64encode(AsciiEncode(b64encode(arr.b)))

\* _CustomEncoder.default(obj)
NdarrayTag(obj) ==
    LET obj_contiguous == ascontiguousarray(obj)
        data_b64 == b64encode(obj_contiguous.buf)
    IN  PDict(<< <<PStr(K_ndarray), PStr(data_b64)>>,
                 <<PStr(K_dtype), PStr(DtypeStr(obj.dtype))>>,
                 <<PStr(K_shape), PTuple([k \in 1..Len(obj.shape) |-> PInt(obj.shape[k])])>> >>)
IsSmallArray_below(obj) ==
    obj.t = "ndarray" /\ Len(obj.shape) = 1 /\ obj.shape[1] < SmallArrayMax
IsSmallArray(obj) ==
    obj.t = "ndarray" /\ Len(obj.shape) = 1 /\ obj.shape[1] <= SmallArrayMax
default(obj) ==
    IF IsSmallArray(obj) THEN [raised |-> NoError, value |-> tolist(obj)]
    ELSE IF obj.t = "ndarray" THEN [raised |-> NoError, value |-> NdarrayTag(obj)]
    ELSE IF obj.t = "QByteArray" THEN
        [raised |-> NoError,
         value |-> PDict(<< <<PStr(K_qbytearray), PStr(_encode_qbytearray(obj))>> >>)]
    ELSE IF obj.t = "generic" THEN
        [raised |-> NoError, value |-> PInt(ElemValue(obj.dtype, obj.buf))]
    ELSE [raised |-> "TypeError", value |-> Nil]

(***************************************************************************)
(* json.dump(data, f, cls=_CustomEncoder, indent=2, sort_keys=True), as    *)
(* the document it writes: keys sorted and coerced to str, tuples written  *)
(* as lists, every other object through _CustomEncoder.default.            *)
(***************************************************************************)
FirstError(rs) ==
    IF \E i \in 1..Len(rs) : rs[i].raised # NoError
    THEN rs[CHOOSE i \in 1..Len(rs) :
                /\ rs[i].raised # NoError
                /\ \A j \in 1..(i - 1) : rs[j].raised = NoError].raised
    ELSE NoError
KeyLess(k1, k2) == IF k1.t = "int" THEN k1.i < k2.i ELSE StrLess(k1.s, k2.s)
Sortable(items) ==
    /\ \A i \in 1..Len(items) : items[i][1].t \in {"int", "str"}
    /\ \A i, j \in 1..Len(items) : items[i][1].t = items[j][1].t
SortItems(items) ==
    LET Rank(i) == 1 + Cardinality({j \in 1..Len(items) : KeyLess(items[j][1], items[i][1])})
    IN  [r \in 1..Len(items) |-> items[CHOOSE i \in 1..Len(items) : Rank(i) = r]]
KeyText(k) == IF k.t = "int" THEN PStr(IntStr(k.i)) ELSE k

RECURSIVE Dump(_)
Dump(v) ==
    IF v.t \in {"int", "str", "None"} THEN [raised |-> NoError, value |-> v]
    ELSE IF v.t \in {"list", "tuple"} THEN
        LET rs == [i \in 1..Len(v.xs) |-> Dump(v.xs[i])] IN
        IF FirstError(rs) # NoError THEN [raised |-> FirstError(rs), value |-> Nil]
        ELSE [raised |-> NoError, value |-> PList([i \in 1..Len(rs) |-> rs[i].value])]
    ELSE IF v.t = "dict" THEN
        IF ~Sortable(v.items) THEN [raised |-> "TypeError", value |-> Nil]
        ELSE LET items == SortItems(v.items)
                 rs == [i \in 1..Len(items) |-> Dump(items[i][2])]
             IN  IF FirstError(rs) # NoError THEN [raised |-> FirstError(rs), value |-> Nil]
                 ELSE [raised |-> NoError,
                       value |-> PDict([i \in 1..Len(items) |->
                                          <<KeyText(items[i][1]), rs[i].value>>])]
    ELSE LET r == default(v) IN
         IF r.raised # NoError THEN r ELSE Dump(r.value)

(***************************************************************************)
(* Decoding: _decode_qbytearray, _json_custom_hook and json.loads with     *)
(* object_hook, which hands every object to the hook, innermost first.     *)
(***************************************************************************)
\* _decode_qbytearray(data_b64): `out` is bound only when PyQt5 is imported.
_decode_qbytearray(data_b64, qt) ==
    LET encoded == b64decode(data_b64) IN
    IF qt THEN [raised |-> NoError, value |-> PQByteArray(b64decode(AsciiDecode(encoded)))]
    ELSE [raised |-> "UnboundLocalError", value |-> Nil]

IsShape(v) ==
    /\ v.t = "list"
    /\ \A i \in 1..Len(v.xs) : v.xs[i].t = "int" /\ v.xs[i].i >= 0
ShapeOf(v) == [i \in 1..Len(v.xs) |-> v.xs[i].i]

\* _json_custom_hook(d)
_json_custom_hook(d, qt) ==
    IF d.t = "dict" /\ DictHas(d.items, PStr(K_ndarray)) THEN
        LET payload == DictGet(d.items, PStr(K_ndarray)) IN
        IF payload.t # "str" THEN [raised |-> "TypeError", value |-> Nil]
        ELSE IF ~B64Valid(payload.s) THEN [raised |-> "binascii.Error", value |-> Nil]
        ELSE IF ~DictHas(d.items, PStr(K_dtype)) THEN [raised |-> "KeyError", value |-> Nil]
        ELSE LET dtype == DictGet(d.items, PStr(K_dtype))
                 bytes == b64decode(payload.s)
             IN
             IF dtype.t # "str" \/ ~DtypeKnown(dtype.s)
             THEN [raised |-> "TypeError", value |-> Nil]
             ELSE IF Len(bytes) % DtypeOf(dtype.s).size # 0
             THEN [raised |-> "ValueError", value |-> Nil]
             ELSE IF ~DictHas(d.items, PStr(K_shape))
             THEN [raised |-> "KeyError", value |-> Nil]
             ELSE LET shape == DictGet(d.items, PStr(K_shape))
                      flat == frombuffer(bytes, DtypeOf(dtype.s))
                  IN
                  IF ~IsShape(shape) THEN [raised |-> "TypeError", value |-> Nil]
                  ELSE IF Prod(ShapeOf(shape)) # flat.shape[1]
                  THEN [raised |-> "ValueError", value |-> Nil]
                  ELSE [raised |-> NoError, value |-> reshape(flat, ShapeOf(shape))]
    ELSE IF d.t = "dict" /\ DictHas(d.items, PStr(K_qbytearray)) THEN
        _decode_qbytearray(DictGet(d.items, PStr(K_qbytearray)).s, qt)
    ELSE [raised |-> NoError, value |-> d]

RECURSIVE Loads(_, _)
Loads(doc, qt) ==
    IF doc.t = "list" THEN
        LET rs == [i \in 1..Len(doc.xs) |-> Loads(doc.xs[i], qt)] IN
        IF FirstError(rs) # NoError THEN [raised |-> FirstError(rs), value |-> Nil]
        ELSE [raised |-> NoError, value |-> PList([i \in 1..Len(rs) |-> rs[i].value])]
    ELSE IF doc.t = "dict" THEN
        LET rs == [i \in 1..Len(doc.items) |-> Loads(doc.items[i][2], qt)] IN
        IF FirstError(rs) # NoError THEN [raised |-> FirstError(rs), value |-> Nil]
        ELSE _json_custom_hook(
                 PDict([i \in 1..Len(rs) |-> <<doc.items[i][1], rs[i].value>>]), qt)
    ELSE [raised |-> NoError, value |-> doc]

(***************************************************************************)
(* Key normalisation.                                                      *)
(***************************************************************************)
\* _is_integer(k), of phylib/utils/_types.py
IsInteger(k) == k.t = "int"

RECURSIVE IntifyItems(_, _)
IntifyItems(items, out) ==
    IF Len(items) = 0 THEN out
    ELSE LET k == items[1][1]
             key == IF k.t = "str" /\ IsDigit(k.s) THEN PInt(ParseInt(k.s)) ELSE k
         IN  IntifyItems(Tail(items), DictSet(out, key, items[1][2]))

\* _intify_keys(d)
_intify_keys(d) ==
    IF d.t # "dict" THEN [raised |-> "AssertionError", value |-> Nil]
    ELSE [raised |-> NoError, value |-> PDict(IntifyItems(d.items, <<>>))]

RECURSIVE StringifyItems_unconverted(_, _)
StringifyItems_unconverted(items, out) ==
    IF Len(items) = 0 THEN out
    ELSE StringifyItems_unconverted(Tail(items), DictSet(out, items[1][1], items[1][2]))

RECURSIVE StringifyItems_first(_, _)
StringifyItems_first(items, out) ==
    IF Len(items) = 0 THEN out
    ELSE LET k == items[1][1]
             key == IF IsInteger(k) THEN PStr(IntStr(k.i)) ELSE k
         IN  StringifyItems_first(Tail(items),
                 IF DictHas(out, key) THEN out ELSE DictSet(out, key, items[1][2]))

RECURSIVE StringifyItems(_, _)
StringifyItems(items, out) ==
    IF Len(items) = 0 THEN out
    ELSE LET k == items[1][1]
             key == IF IsInteger(k) THEN PStr(IntStr(k.i)) ELSE k
         IN  StringifyItems(Tail(items), DictSet(out, key, items[1][2]))

\* _stringify_keys(d)
_stringify_keys(d) ==
    IF d.t # "dict" THEN [raised |-> "AssertionError", value |-> Nil]
    ELSE [raised |-> NoError, value |-> PDict(StringifyItems(d.items, <<>>))]

(***************************************************************************)
(* _load_json and _save_json.  A file holds no text, a JSON document, or   *)
(* the head of one that json.dump left when it raised.                     *)
(***************************************************************************)
EmptyText == [t |-> "empty"]
PartialText == [t |-> "partial"]
JsonText(doc) == [t |-> "json", doc |-> doc]

\* _load_json(path)
_load_json(f, path, qt) ==
    IF ~Exists(f, path) THEN Raise(f, "IOError")
    ELSE IF IsDir(f, path) THEN Raise(f, "IsADirectoryError")
    ELSE LET contents == f[path].content IN
         IF contents = EmptyText THEN Ok(f, PDict(<<>>))
         ELSE IF contents.t # "json" THEN Raise(f, "JSONDecodeError")
         ELSE LET out == Loads(contents.doc, qt) IN
              IF out.raised # NoError THEN Raise(f, out.raised)
              ELSE LET r == _intify_keys(out.value) IN
                   IF r.raised # NoError THEN Raise(f, r.raised) ELSE Ok(f, r.value)

_save_json_late_check(f, path, d) ==
    LET dir == _ensure_dir_exists(f, Parent(path)) IN
    IF dir.raised # NoError THEN dir
    ELSE Raise(dir.fs, "AssertionError")

\* _save_json(path, data)
_save_json(f, path, d) ==
    IF d.t # "dict" THEN Raise(f, "AssertionError")
    ELSE LET keyed == _stringify_keys(d).value
             dir == _ensure_dir_exists(f, Parent(path))
         IN
         IF dir.raised # NoError THEN dir
         ELSE IF IsDir(dir.fs, path) THEN Raise(dir.fs, "IsADirectoryError")
         ELSE LET text == Dump(keyed) IN
              IF text.raised # NoError
              THEN Raise(Put(dir.fs, path, FileNode(PartialText)), text.raised)
              ELSE Ok(Put(dir.fs, path, FileNode(JsonText(text.value))), Nil)

(***************************************************************************)
(* The JSON specification: _save_json and _load_json at one path, and      *)
(* _stringify_keys on its own, for every object of Datas.                  *)
(***************************************************************************)
JsonPath == <<"a", "x.json">>

\* Keys, and mappings to nesting depth 1: the i-th entry of a flat mapping
\* holds i, so that a value tells which key it came under.
Keys == {PInt(0), PInt(3), PInt(-1), PStr(<<"3">>), PStr(<<"a">>), PStr(<<"0", "3">>)}
Injective(seq) == \A i, j \in 1..Len(seq) : seq[i] = seq[j] => i = j
KeySeqs == {ks \in UNION {[1..n -> Keys] : n \in 0..MaxKeys} : Injective(ks)}
FlatMaps == {PDict([i \in 1..Len(ks) |-> <<ks[i], PInt(i)>>]) : ks \in KeySeqs}
NestedMaps ==
    {PDict(<< <<k, m>> >>) : k \in Keys, m \in FlatMaps}
    \cup {PDict(<< <<PStr(<<"a">>), PList(<<PDict(<< <<k, PInt(1)>> >>)>>)>> >>) : k \in Keys}

\* Arrays: every dtype, C order, Fortran order (a transposed view) and a
\* step-2 slice, over buffers filled with pattern `seed`.
ByteAt(seed, i) == (seed * (29 * i + 226 * (seed - 1))) % 256
Buffer(seed, n) == [i \in 1..n |-> ByteAt(seed, i)]
Shapes ==
    {<<>>, <<2, 6>>, <<1, 2, 2>>}
    \cup {<<n>> : n \in 0..MaxLen}
    \cup {<<r, c>> : r \in 0..MaxDim, c \in 0..MaxDim}
Views(dt, shape) ==
    {CStrides(dt, shape)}
    \cup (IF Len(shape) = 2 THEN {<<dt.size, shape[1] * dt.size>>} ELSE {})
    \cup (IF Len(shape) = 1 THEN {<<2 * dt.size>>} ELSE {})
Arrays ==
    UNION {{NdArray(dt, shape, strides, 0, Buffer(seed, 2 * Prod(shape) * dt.size)) :
               strides \in Views(dt, shape), seed \in 0..MaxSeed} :
           dt \in Dtypes, shape \in Shapes}
ArrayMaps == {PDict(<< <<PInt(0), a>> >>) : a \in Arrays}

Blob == PQByteArray(<<1, 2, 250>>)
Scalar == [t |-> "generic", dtype |-> Int16, buf |-> <<254, 255>>]
OtherMaps ==
    {PDict(<< <<PStr(<<"a">>), Blob>> >>),
     PDict(<< <<PInt(3), Scalar>> >>),
     PDict(<< <<PInt(3), PTuple(<<PInt(1), PNone>>)>> >>),
     PDict(<< <<PInt(3), PBytes(<<1>>)>> >>),
     PDict(<< <<PStr(<<"a">>), PDict(<< <<PInt(3), PInt(1)>>, <<PStr(<<"3">>), PInt(2)>> >>)>> >>)}
NonMappings ==
    {PList(<<PInt(1)>>), PTuple(<<>>), PInt(3), PStr(<<"a">>), PNone,
     NdArray(Uint8, <<2>>, <<1>>, 0, <<1, 2>>)}
Datas == FlatMaps \cup NestedMaps \cup ArrayMaps \cup OtherMaps \cup NonMappings

RECURSIVE HasBlob(_)
HasBlob(v) ==
    \/ v.t = "QByteArray"
    \/ v.t \in {"list", "tuple"} /\ \E i \in 1..Len(v.xs) : HasBlob(v.xs[i])
    \/ v.t = "dict" /\ \E i \in 1..Len(v.items) : HasBlob(v.items[i][2])

\* Files found at the path: written by a host that has PyQt5, or by hand.
BlobDoc ==
    PDict(<< <<PStr(<<"a">>),
               PDict(<< <<PStr(K_qbytearray), PStr(_encode_qbytearray(Blob))>> >>)>> >>)
FoundTexts == {EmptyText, JsonText(BlobDoc), JsonText(PDict(<< <<PStr(<<"3">>), PNone>> >>))}
JsonTrees ==
    LET a == <<"a">> IN
    {<<>>, (a :> FileNode(Nil)), (a :> DirNode),
     (a :> DirNode) @@ (JsonPath :> DirNode)}
    \cup {(a :> DirNode) @@ (JsonPath :> FileNode(c)) : c \in FoundTexts}

SaveJson(path) ==
    LET r == _save_json(fs, path, data) IN
    /\ fs' = r.fs
    /\ call' = [op |-> "_save_json", path |-> path]
    /\ ret' = Outcome(r)
    /\ UNCHANGED <<data, hasQt, tsv, cwd, env>>

LoadJson(path) ==
    LET r == _load_json(fs, path, hasQt) IN
    /\ fs' = r.fs
    /\ call' = [op |-> "_load_json", path |-> path]
    /\ ret' = Outcome(r)
    /\ UNCHANGED <<data, hasQt, tsv, cwd, env>>

StringifyKeys ==
    /\ call' = [op |-> "_stringify_keys"]
    /\ ret' = _stringify_keys(data)
    /\ UNCHANGED <<fs, data, hasQt, tsv, cwd, env>>

InitJson ==
    /\ fs \in JsonTrees
    /\ call = NoCall
    /\ ret = NoRet
    /\ data \in Datas
    /\ hasQt \in BOOLEAN
    /\ HasBlob(data) => hasQt
    /\ tsv = Nil
    /\ cwd = Root
    /\ env = Nil

NextJson ==
    \/ SaveJson(JsonPath)
    \/ LoadJson(JsonPath)
    \/ StringifyKeys

SpecJson == InitJson /\ [][NextJson]_vars

(***************************************************************************)
(* Claims on the JSON codec.                                               *)
(***************************************************************************)
Saved == call.op = "_save_json" /\ ret.raised = NoError
Loaded == call.op = "_load_json" /\ ret.raised = NoError
LoadsSaved == Saved /\ call'.op = "_load_json"
TheArray == data.items[1][2]
KeyOf(items) == {items[i][1] : i \in 1..Len(items)}

RECURSIVE KeysRestored(_)
KeysRestored(v) ==
    /\ v.t = "dict" =>
          \A i \in 1..Len(v.items) :
              /\ \/ v.items[i][1].t = "int"
                 \/ v.items[i][1].t = "str" /\ ~IsDigit(v.items[i][1].s)
              /\ KeysRestored(v.items[i][2])
    /\ v.t = "list" => \A i \in 1..Len(v.xs) : KeysRestored(v.xs[i])

\* C1: loading what _save_json wrote for a mapping with integer and string
\* keys returns a mapping in which, at every nesting level, every key made
\* only of decimal digits is an integer and every other key is a string.
C1_KeysRestoredAtEveryLevel ==
    [][LoadsSaved /\ data \in FlatMaps \cup NestedMaps =>
          ret'.raised = NoError /\ KeysRestored(ret'.value)]_vars

\* C2: an array with more than 10 elements or with a number of dimensions
\* other than 1, contiguous or not, saved under key 0 and loaded, comes back
\* under key 0 with the same dtype, shape and row-major element bytes.
C2_ArrayRoundTrip ==
    [][LoadsSaved /\ data \in ArrayMaps
          /\ (Prod(TheArray.shape) > 10 \/ Len(TheArray.shape) # 1) =>
          /\ ret'.raised = NoError
          /\ DictHas(ret'.value.items, PInt(0))
          /\ LET b == DictGet(ret'.value.items, PInt(0)) IN
             /\ b.t = "ndarray"
             /\ b.dtype = TheArray.dtype
             /\ b.shape = TheArray.shape
             /\ RowMajorBytes(b) = RowMajorBytes(TheArray)]_vars

\* C2 witness: a non-contiguous one-dimensional array of 11 elements has
\* been saved and loaded back as an array.
C2_Witness ==
    /\ Loaded
    /\ data \in ArrayMaps
    /\ TheArray.shape = <<11>>
    /\ TheArray.strides # CStrides(TheArray.dtype, TheArray.shape)
    /\ DictHas(ret.value.items, PInt(0))
    /\ DictGet(ret.value.items, PInt(0)).t = "ndarray"

\* C3: an array is written as the plain list of its elements exactly when it
\* has one dimension and at most 10 elements; every other array is written
\* as an object with the fields __ndarray__, dtype and shape.
C3_PlainListOrTag ==
    Saved /\ data \in ArrayMaps =>
        LET e == DictGet(fs[JsonPath].content.doc.items, PStr(<<"0">>)) IN
        IF Len(TheArray.shape) = 1 /\ TheArray.shape[1] <= 10
        THEN e.t = "list" /\ Len(e.xs) = TheArray.shape[1] /\ e = tolist(TheArray)
        ELSE e.t = "dict" /\ KeyOf(e.items) = {PStr(K_ndarray), PStr(K_dtype), PStr(K_shape)}

\* C3 witness: a one-dimensional array of exactly 10 elements has been saved.
C3_Witness == Saved /\ data \in ArrayMaps /\ TheArray.shape = <<10>>

Normalized(k) == IF k.t = "int" THEN PStr(IntStr(k.i)) ELSE k
Stringified == call.op = "_stringify_keys" /\ data.t = "dict"
StringifyCalled == call'.op = "_stringify_keys" /\ data.t = "dict"
Collides(items) ==
    \E i, j \in 1..Len(items) :
        items[i][1].t = "int" /\ items[j][1] = PStr(IntStr(items[i][1].i))

\* C4 as claimed: _stringify_keys returns a new mapping whose keys are the
\* input's keys with every integer replaced by its decimal string, each key
\* keeping the value it had in the input, and leaves the input as it was.
C4_AsClaimed ==
    [][StringifyCalled =>
          /\ ret'.raised = NoError
          /\ KeyOf(ret'.value.items) = {Normalized(k) : k \in KeyOf(data.items)}
          /\ \A i \in 1..Len(data.items) :
                DictGet(ret'.value.items, Normalized(data.items[i][1])) = data.items[i][2]
          /\ data' = data]_vars

\* C4, amended: as claimed, except that when several keys of the input have
\* the same normalized key, that key holds the value of the last of them in
\* the input's iteration order.
C4_StringifyKeys ==
    [][StringifyCalled =>
          /\ ret'.raised = NoError
          /\ KeyOf(ret'.value.items) = {Normalized(k) : k \in KeyOf(data.items)}
          /\ \A i \in 1..Len(data.items) :
                (\A j \in (i + 1)..Len(data.items) :
                     Normalized(data.items[j][1]) # Normalized(data.items[i][1]))
                => DictGet(ret'.value.items, Normalized(data.items[i][1])) = data.items[i][2]
          /\ data' = data]_vars

\* C4 witness: _stringify_keys has run on a mapping with an integer key and
\* a string key that do not collide.
C4_Witness ==
    /\ Stringified
    /\ ret.raised = NoError
    /\ ~Collides(data.items)
    /\ \E i, j \in 1..Len(data.items) : data.items[i][1].t = "int" /\ data.items[j][1].t = "str"

\* C5: without PyQt5, decoding an object tagged __qbytearray__ does not
\* fail and yields the base64-decoded bytes of the payload.
C5_BlobFallsBackToBytes ==
    /\ call.op = "_load_json"
    /\ ~hasQt
    /\ IsFile(fs, JsonPath)
    /\ fs[JsonPath].content = JsonText(BlobDoc)
    => /\ ret.raised = NoError
       /\ DictGet(ret.value.items, PStr(<<"a">>))
              = PBytes(b64decode(_encode_qbytearray(Blob)))

\* C6: _save_json on data that is not a mapping fails on the type check,
\* before any directory or file is created or changed.
C6_NonMappingFailsFirst ==
    [][call'.op = "_save_json" /\ data.t # "dict" =>
          ret'.raised = "AssertionError" /\ fs' = fs]_vars

\* C6 witness: _save_json has refused a non-mapping and the parent
\* directory, missing before, is still missing.
C6_Witness ==
    /\ call.op = "_save_json"
    /\ data.t # "dict"
    /\ ret.raised = "AssertionError"
    /\ ~Exists(fs, Parent(JsonPath))

\* C10: when the mapping holds an integer key and the string key of its
\* decimal form, _stringify_keys raises nothing and returns fewer entries:
\* one key for that string, with the value of whichever of the two keys
\* comes later in the input.
C10_CollisionLastWins ==
    Stringified =>
        \A i, j \in 1..Len(data.items) :
            data.items[i][1].t = "int" /\ data.items[j][1] = PStr(IntStr(data.items[i][1].i))
            => /\ ret.raised = NoError
               /\ Len(ret.value.items) < Len(data.items)
               /\ Cardinality({n \in 1..Len(ret.value.items) :
                                  ret.value.items[n][1] = data.items[j][1]}) = 1
               /\ DictGet(ret.value.items, data.items[j][1])
                      = data.items[IF i > j THEN i ELSE j][2]

\* C10 witness: _stringify_keys has run on a mapping that holds "3" and then
\* 3, and the one key "3" of the result holds the value that came under 3.
C10_Witness ==
    /\ Stringified
    /\ ret.raised = NoError
    /\ Len(data.items) >= 2
    /\ data.items[1][1] = PStr(<<"3">>)
    /\ data.items[2][1] = PInt(3)
    /\ DictGet(ret.value.items, PStr(<<"3">>)) = PInt(2)

(***************************************************************************)
(* The csv module: csv.writer and csv.reader in the excel dialect, with    *)
(* the delimiter the caller gives.                                         *)
(***************************************************************************)
TextFile(s) == [t |-> "text", s |-> s]

\* str(value), as csv.writer writes a field: None is written as ''.
FieldText(v) ==
    IF v.t = "str" THEN v.s
    ELSE IF v.t = "int" THEN IntStr(v.i)
    ELSE <<>>

\* QUOTE_MINIMAL: a field is quoted when it holds the delimiter, the quote
\* character or a character of the line terminator; quotes are doubled.
NeedsQuote(s, delimiter) ==
    \E i \in 1..Len(s) : s[i] \in {delimiter, "\"", "\r", "\n"}
DoubleQuotes(s) == Concat([i \in 1..Len(s) |-> IF s[i] = "\"" THEN <<"\"", "\"">> ELSE <<s[i]>>])
WriteField(s, delimiter) ==
    IF NeedsQuote(s, delimiter) THEN <<"\"">> \o DoubleQuotes(s) \o <<"\"">> ELSE s
writerow(row, delimiter) ==
    Concat([i \in 1..Len(row) |->
               (IF i > 1 THEN <<delimiter>> ELSE <<>>) \o WriteField(row[i], delimiter)])
    \o <<"\r", "\n">>

\* A file opened in text mode without newline='' : '\r\n' and '\r' are read as '\n'.
RECURSIVE UniversalNewlines(_)
UniversalNewlines(s) ==
    IF Len(s) = 0 THEN <<>>
    ELSE IF s[1] = "\r" THEN
        <<"\n">> \o UniversalNewlines(
            IF Len(s) > 1 /\ s[2] = "\n" THEN SubSeq(s, 3, Len(s)) ELSE Tail(s))
    ELSE <<s[1]>> \o UniversalNewlines(Tail(s))

\* f.readline()
readline(s) ==
    IF \E i \in 1..Len(s) : s[i] = "\n"
    THEN SubSeq(s, 1, CHOOSE i \in 1..Len(s) : s[i] = "\n" /\ \A j \in 1..(i - 1) : s[j] # "\n")
    ELSE s

\* csv.reader: the rows of the text, by the reader's state machine.
RECURSIVE reader(_, _, _, _, _, _)
reader(s, delimiter, state, field, row, rows) ==
    IF Len(s) = 0 THEN
        IF state = "START_RECORD" THEN rows ELSE Append(rows, Append(row, field))
    ELSE LET c == s[1]  rest == Tail(s) IN
    IF state \in {"START_RECORD", "START_FIELD"} THEN
        IF c = "\n" THEN
            reader(rest, delimiter, "START_RECORD", <<>>, <<>>,
                   Append(rows, IF state = "START_RECORD" THEN <<>> ELSE Append(row, <<>>)))
        ELSE IF c = "\"" THEN reader(rest, delimiter, "IN_QUOTED_FIELD", <<>>, row, rows)
        ELSE IF c = delimiter THEN reader(rest, delimiter, "START_FIELD", <<>>, Append(row, <<>>), rows)
        ELSE reader(rest, delimiter, "IN_FIELD", <<c>>, row, rows)
    ELSE IF state = "IN_FIELD" THEN
        IF c = "\n" THEN reader(rest, delimiter, "START_RECORD", <<>>, <<>>, Append(rows, Append(row, field)))
        ELSE IF c = delimiter THEN reader(rest, delimiter, "START_FIELD", <<>>, Append(row, field), rows)
        ELSE reader(rest, delimiter, "IN_FIELD", Append(field, c), row, rows)
    ELSE IF state = "IN_QUOTED_FIELD" THEN
        IF c = "\"" THEN reader(rest, delimiter, "QUOTE_IN_QUOTED_FIELD", field, row, rows)
        ELSE reader(rest, delimiter, "IN_QUOTED_FIELD", Append(field, c), row, rows)
    ELSE \* QUOTE_IN_QUOTED_FIELD
        IF c = "\"" THEN reader(rest, delimiter, "IN_QUOTED_FIELD", Append(field, c), row, rows)
        ELSE IF c = delimiter THEN reader(rest, delimiter, "START_FIELD", <<>>, Append(row, field), rows)
        ELSE IF c = "\n" THEN reader(rest, delimiter, "START_RECORD", <<>>, <<>>, Append(rows, Append(row, field)))
        ELSE reader(rest, delimiter, "IN_FIELD", Append(field, c), row, rows)

\* int(str), where the text is a decimal integer with an optional sign.
IsIntText(s) ==
    IF Len(s) > 0 /\ s[1] \in {"-", "+"} THEN IsDigit(Tail(s)) ELSE IsDigit(s)
IntOfText(s) ==
    IF s[1] = "-" THEN -ParseInt(Tail(s))
    ELSE IF s[1] = "+" THEN ParseInt(Tail(s))
    ELSE ParseInt(s)

(***************************************************************************)
(* _read_tsv and _write_tsv.                                               *)
(***************************************************************************)
RECURSIVE ReadRows(_, _)
ReadRows(rows, out) ==
    IF Len(rows) = 0 THEN [raised |-> NoError, value |-> out]
    ELSE LET row == rows[1] IN
         IF Len(row) # 2 \/ ~IsIntText(row[1]) THEN [raised |-> "ValueError", value |-> Nil]
         ELSE ReadRows(Tail(rows), DictSet(out, PInt(IntOfText(row[1])), PStr(row[2])))

\* _read_tsv(path)
_read_tsv(f, path) ==
    IF ~Exists(f, path) THEN Ok(f, PDict(<<>>))
    ELSE IF IsDir(f, path) THEN Raise(f, "IsADirectoryError")
    ELSE LET text == UniversalNewlines(f[path].content.s)
             delimiter == IF InSeq(readline(text), "\t") THEN "\t" ELSE ","
             rows == reader(text, delimiter, "START_RECORD", <<>>, <<>>, <<>>)
         IN
         IF Len(rows) = 0 THEN Raise(f, "StopIteration")
         ELSE IF Len(rows[1]) # 2 THEN Raise(f, "ValueError")
         ELSE LET r == ReadRows(Tail(rows), <<>>) IN
              IF r.raised # NoError THEN Raise(f, r.raised)
              ELSE Ok(f, PTuple(<<PStr(rows[1][2]), PDict(r.value)>>))

\* Path.suffix, of the file names the model uses.
Suffix(path) ==
    CASE path[Len(path)] = "x.tsv" -> ".tsv"
      [] path[Len(path)] = "x.csv" -> ".csv"
      [] OTHER -> ""

\* _write_tsv(path, field_name, data)
_write_tsv(f, path, field_name, d) ==
    LET dir == _ensure_dir_exists(f, Parent(path)) IN
    IF dir.raised # NoError THEN dir
    ELSE IF IsDir(dir.fs, path) THEN Raise(dir.fs, "IsADirectoryError")
    ELSE LET delimiter == IF Suffix(path) = ".tsv" THEN "\t" ELSE ","
             header == writerow(<<<<"c", "l", "u", "s", "t", "e", "r", "_", "i", "d">>,
                                  FieldText(field_name)>>, delimiter)
             sorted == SortItems(d.items)
             lines == [i \in 1..Len(sorted) |->
                          writerow(<<FieldText(sorted[i][1]), FieldText(sorted[i][2])>>, delimiter)]
         IN  Ok(Put(dir.fs, path, FileNode(TextFile(header \o Concat(lines)))), Nil)

(***************************************************************************)
(* The table specification: _write_tsv and _read_tsv on a .tsv and a .csv  *)
(* path, for every table of Tables.                                        *)
(***************************************************************************)
TsvPaths == {<<"a", "x.tsv">>, <<"a", "x.csv">>}
TextChars == {"a", "\t", ",", "\"", "\n", "\r"}
Texts(n) == UNION {[1..k -> TextChars] : k \in 0..n}
ClusterIds == {-1, 3, 10}
IdSeqs == {ids \in UNION {[1..n -> ClusterIds] : n \in 0..MaxRows} : Injective(ids)}
FirstValues == {PStr(s) : s \in Texts(1)} \cup {PInt(12), PNone}
TableData ==
    {PDict([i \in 1..Len(ids) |-> <<PInt(ids[i]), IF i = 1 THEN v ELSE PInt(i)>>]) :
        ids \in IdSeqs, v \in FirstValues}
Tables ==
    {[path |-> path, field_name |-> PStr(n), data |-> d] :
        path \in TsvPaths, n \in Texts(MaxText), d \in TableData}

WriteTsv ==
    LET r == _write_tsv(fs, tsv.path, tsv.field_name, tsv.data) IN
    /\ fs' = r.fs
    /\ call' = [op |-> "_write_tsv", path |-> tsv.path]
    /\ ret' = Outcome(r)
    /\ UNCHANGED <<data, hasQt, tsv, cwd, env>>

ReadTsv(path) ==
    LET r == _read_tsv(fs, path) IN
    /\ fs' = r.fs
    /\ call' = [op |-> "_read_tsv", path |-> path]
    /\ ret' = Outcome(r)
    /\ UNCHANGED <<data, hasQt, tsv, cwd, env>>

InitTsv ==
    /\ fs \in {<<>>, (<<"a">> :> FileNode(Nil))}
    /\ call = NoCall
    /\ ret = NoRet
    /\ data = Nil
    /\ hasQt = FALSE
    /\ tsv \in Tables
    /\ cwd = Root
    /\ env = Nil

NextTsv ==
    \/ WriteTsv
    \/ \E path \in TsvPaths : ReadTsv(path)

SpecTsv == InitTsv /\ [][NextTsv]_vars

\* Whether the identifiers of a dict come in strictly ascending order.
Ascending(items) == \A i \in 1..(Len(items) - 1) : items[i][1].i < items[i + 1][1].i

\* C9: _read_tsv of a file that _write_tsv wrote returns the written field
\* name and a mapping with the same integer identifiers, in strictly
\* ascending order as the rows were written after the header, each mapped to
\* the text of its written value.
C9_TableRoundTrip ==
    [][/\ call.op = "_write_tsv"
       /\ ret.raised = NoError
       /\ call'.op = "_read_tsv"
       /\ call'.path = tsv.path
       => /\ ret'.raised = NoError
          /\ ret'.value.t = "tuple"
          /\ ret'.value.xs[1] = tsv.field_name
          /\ LET got == ret'.value.xs[2].items IN
             /\ Ascending(got)
             /\ KeyOf(got) = KeyOf(tsv.data.items)
             /\ \A i \in 1..Len(tsv.data.items) :
                   DictGet(got, tsv.data.items[i][1]) = PStr(FieldText(tsv.data.items[i][2]))]_vars

(***************************************************************************)
(* _git_version.  The host decides what each step does: os.getcwd and      *)
(* os.chdir raise OSError on a directory that is gone or is no directory,  *)
(* open(os.devnull) may fail, git may be missing, exit non-zero or print   *)
(* its description, which is ASCII or not.                                 *)
(***************************************************************************)
PackageDir == <<"site-packages", "phylib", "utils">>
IsSpace(b) == b \in {9, 10, 11, 12, 13, 32}

\* bytes.strip()
RECURSIVE LStrip(_)
LStrip(b) == IF Len(b) > 0 /\ IsSpace(b[1]) THEN LStrip(Tail(b)) ELSE b
RECURSIVE RStrip(_)
RStrip(b) == IF Len(b) > 0 /\ IsSpace(b[Len(b)]) THEN RStrip(SubSeq(b, 1, Len(b) - 1)) ELSE b
strip(b) == RStrip(LStrip(b))
IsAscii(b) == \A i \in 1..Len(b) : b[i] < 128

\* The try block: what it returns or raises into the finally clause.
GitTry(e) ==
    IF ~e.devnull THEN [raised |-> NoError, value |-> PStr(<<>>)]               \* OSError, caught
    ELSE IF e.git = "missing" THEN [raised |-> NoError, value |-> PStr(<<>>)]   \* OSError, caught
    ELSE IF e.git = "nonzero" THEN [raised |-> NoError, value |-> PStr(<<>>)]   \* CalledProcessError, caught
    ELSE IF ~IsAscii(strip(e.output)) THEN [raised |-> "UnicodeDecodeError", value |-> Nil]
    ELSE [raised |-> NoError,
          value |-> PStr(<<"-", "g", "i", "t", "-">> \o AsciiDecode(strip(e.output)))]

\* _git_version(): the working directory it leaves, and its outcome.
_git_version(dir, e) ==
    IF ~e.getcwd THEN [cwd |-> dir, raised |-> "FileNotFoundError", value |-> Nil]
    ELSE LET curdir == dir IN
         IF ~e.chdir THEN [cwd |-> dir, raised |-> "OSError", value |-> Nil]
         ELSE LET r == GitTry(e) IN
              IF ~e.chdirBack
              THEN [cwd |-> PackageDir, raised |-> "OSError", value |-> Nil]
              ELSE [cwd |-> curdir, raised |-> r.raised, value |-> r.value]

(***************************************************************************)
(* The version specification: _git_version from every directory, on every *)
(* host of Hosts.                                                          *)
(***************************************************************************)
GitOutputs == {<<>>, <<118, 49, 10>>, <<49, 45, 103, 97, 10>>, <<118, 195, 169, 10>>, <<32, 97, 13, 10>>}
Hosts ==
    {h \in [getcwd : BOOLEAN, chdir : BOOLEAN, devnull : BOOLEAN, chdirBack : BOOLEAN,
            git : {"missing", "nonzero", "ok"}, output : GitOutputs] :
        h.git # "ok" => h.output = <<>>}
WorkDirs == {Root, <<"a">>, <<"a", "b">>, PackageDir}

GitVersion ==
    LET r == _git_version(cwd, env) IN
    /\ cwd' = r.cwd
    /\ call' = [op |-> "_git_version", cwd |-> cwd]
    /\ ret' = [raised |-> r.raised, value |-> r.value]
    /\ UNCHANGED <<fs, data, hasQt, tsv, env>>

InitGit ==
    /\ fs = <<>>
    /\ call = NoCall
    /\ ret = NoRet
    /\ data = Nil
    /\ hasQt = FALSE
    /\ tsv = Nil
    /\ cwd \in WorkDirs
    /\ env \in Hosts

NextGit == GitVersion

SpecGit == InitGit /\ [][NextGit]_vars

HostFails(e) == ~e.getcwd \/ ~e.chdir \/ ~e.devnull \/ ~e.chdirBack \/ e.git # "ok"

\* C8: _git_version never raises, returns the empty string on every
\* failure, and on every path leaves the working directory as it was.
C8_NeverRaisesAndRestoresCwd ==
    [][call'.op = "_git_version" =>
          /\ ret'.raised = NoError
          /\ HostFails(env) => ret'.value = PStr(<<>>)
          /\ cwd' = cwd]_vars

(***************************************************************************)
(* The directory specification: _ensure_dir_exists on every tree of        *)
(* directories and files over three chains of paths of depth MaxDepth.     *)
(***************************************************************************)
Names == {"a", "b", "c"}
TreePaths == {[i \in 1..k |-> IF i = 1 THEN n ELSE "a"] : n \in Names, k \in 1..MaxDepth}
Trees ==
    LET Closed(D) == \A p \in D : Parent(p) \in D \cup {Root}
        Free(D) == {p \in TreePaths \ D : Parent(p) \in D \cup {Root}}
        Shape(D, F) == [p \in D \cup F |-> IF p \in D THEN DirNode ELSE FileNode(Nil)]
    IN  UNION {{Shape(D, F) : F \in SUBSET Free(D)} :
                  D \in {E \in SUBSET TreePaths : Closed(E)}}

EnsureDirExists(path) ==
    LET r == _ensure_dir_exists(fs, path) IN
    /\ fs' = r.fs
    /\ call' = [op |-> "_ensure_dir_exists", path |-> path]
    /\ ret' = Outcome(r)
    /\ UNCHANGED <<data, hasQt, tsv, cwd, env>>

InitDir ==
    /\ fs \in Trees
    /\ call = NoCall
    /\ ret = NoRet
    /\ data = Nil
    /\ hasQt = FALSE
    /\ tsv = Nil
    /\ cwd = Root
    /\ env = Nil

NextDir == \E path \in TreePaths : EnsureDirExists(path)

SpecDir == InitDir /\ [][NextDir]_vars

Ancestors(p) == {Prefix(p, k) : k \in 1..Len(p)}
BelowFile(f, p) == \E k \in 1..(Len(p) - 1) : IsFile(f, Prefix(p, k))
Created(f, g, p) ==
    /\ DOMAIN g = DOMAIN f \cup Ancestors(p)
    /\ \A q \in DOMAIN f : g[q] = f[q]
    /\ \A q \in Ancestors(p) : g[q].kind = "dir"
EnsureCalled(path) == call' = [op |-> "_ensure_dir_exists", path |-> path]

\* C7 as claimed: _ensure_dir_exists(path) creates a missing path with all
\* its missing ancestors, changes nothing and succeeds on an existing
\* directory, raises and changes nothing on an existing non-directory, and
\* whenever it returns normally path is a directory.
C7_AsClaimed ==
    [][\A path \in TreePaths : EnsureCalled(path) =>
          /\ ~Exists(fs, path) => ret'.raised = NoError /\ Created(fs, fs', path)
          /\ IsDir(fs, path) => ret'.raised = NoError /\ fs' = fs
          /\ IsFile(fs, path) => ret'.raised = "AssertionError" /\ fs' = fs
          /\ ret'.raised = NoError => IsDir(fs', path)]_vars

\* C7, amended: as C7 claims, except that a missing path below a
\* non-directory is not created: _ensure_dir_exists raises
\* NotADirectoryError there and leaves the filesystem unchanged.
C7_EnsureDirExists ==
    [][\A path \in TreePaths : EnsureCalled(path) =>
          /\ ~Exists(fs, path) /\ ~BelowFile(fs, path) =>
                 ret'.raised = NoError /\ Created(fs, fs', path)
          /\ ~Exists(fs, path) /\ BelowFile(fs, path) =>
                 ret'.raised = "NotADirectoryError" /\ fs' = fs
          /\ IsDir(fs, path) => ret'.raised = NoError /\ fs' = fs
          /\ IsFile(fs, path) => ret'.raised = "AssertionError" /\ fs' = fs
          /\ ret'.raised = NoError => IsDir(fs', path)]_vars

\* C7 witness: _ensure_dir_exists has been called on a path below a regular
\* file and has raised NotADirectoryError.
C7_Witness ==
    /\ call.op = "_ensure_dir_exists"
    /\ ret.raised = "NotADirectoryError"
    /\ BelowFile(fs, call.path)

====
